---- MODULE Spec2Model ----
(***************************************************************************)
(* Model of the probabilistic toroidal Game-of-Life grid engine            *)
(* (src/src/grid.rs).  A Grid value is the state; every public method of   *)
(* Grid is one action.  Probabilities and random draws are rationals with  *)
(* denominator Scale: a probability p is the integer p*Scale in 0..Scale,  *)
(* a draw of gen_range(0.0..1.0) is an integer r in 0..Scale-1 (r/Scale).  *)
(***************************************************************************)
EXTENDS Integers, Sequences, FiniteSets, TLC

VARIABLES
    width, height,              \* Grid.width, Grid.height
    initial_cells,              \* Grid.initial_cells : index -> alive?
    cells,                      \* Grid.cells         : index -> alive?
    cells_probabilities,        \* Grid.cells_probabilities : index -> count
    iteration, launch_count,    \* Grid.iteration, Grid.launch_count
    max_iterations, max_launch_count,
    dead_probability, alive_probability,
    op,                         \* history: the last method called
    calls,                      \* history: number of update() calls so far
    entropy_reports,            \* history: number of calculate_entropy() calls
    sampled_dead,               \* history: index -> was dead in the snapshot
                                \*          installed by some sampling step
    launch_gain,                \* history: index -> growth of the counter
                                \*          since launch_count last changed
    pc,                         \* "idle", or "map" while an update() runs its
                                \*          parallel map one worker at a time
    worker_draws,               \* index -> the draw of the worker of that cell
    collected                   \* index -> next state, for the workers done

vars == <<width, height, initial_cells, cells, cells_probabilities,
          iteration, launch_count, max_iterations, max_launch_count,
          dead_probability, alive_probability,
          op, calls, entropy_reports, sampled_dead, launch_gain,
          pc, worker_draws, collected>>

\* The state of the parallel map of a running update()
map_vars == <<pc, worker_draws, collected>>

config == <<width, height, max_iterations, max_launch_count,
            dead_probability, alive_probability>>

----------------------------------------------------------------------------
(* Bounds of the model *)

Scale == 2          \* probabilities and draws are multiples of 1/Scale
MaxCells == 2       \* grids of Init and InitRule have at most MaxCells cells
MaxIterations == 1  \* max_iterations is drawn from 0..MaxIterations
MaxLaunches == 1    \* max_launch_count is drawn from 0..MaxLaunches
MaxCalls == 2       \* update() calls in Spec and SpecMap
LifeCells == 9      \* grids of InitLife have at most LifeCells cells
BlockDim == 4       \* grids of InitBlock are BlockDim x BlockDim

\* update() calls in SpecRun and SpecBlock: one launch more than configured
RunCalls == (MaxLaunches + 1) * (MaxIterations + 2)

Probabilities == 0..Scale
Draws == 0..(Scale - 1)
One == Scale

----------------------------------------------------------------------------
(* Vectors: a Vec of length n is a function on 0..n-1 *)

VecOf(n, v) == [i \in 0..(n - 1) |-> v]
VecLen(v) == Cardinality(DOMAIN v)
Points == {[x |-> px, y |-> py] : px \in 0..(width - 1), py \in 0..(height - 1)}

----------------------------------------------------------------------------
(* Coordinate mapping *)

coords_to_index(pos) == pos.y * width + pos.x

\* index_to_coords with the quotient as x and the remainder as y
index_to_coords_transposed(index) ==
    [x |-> index \div width, y |-> index % height]

index_to_coords(index) == [x |-> index % height, y |-> index \div width]

----------------------------------------------------------------------------
(* Neighbour resolution and the transition rule *)

Offsets == {<<x_off, y_off>> : x_off \in {-1, 0, 1}, y_off \in {-1, 0, 1}}
               \ {<<0, 0>>}

\* neighbour_pos testing the right edge against height instead of width
neighbour_pos_right_edge_by_height(cell_pos, x_off, y_off) ==
    LET nx == cell_pos.x + x_off
        ny == cell_pos.y + y_off
    IN  IF nx < 0
        THEN IF ny < 0 THEN [x |-> width - 1, y |-> height - 1]
             ELSE IF ny > height - 1 THEN [x |-> width - 1, y |-> 0]
             ELSE [x |-> width - 1, y |-> ny]
        ELSE IF nx > height - 1
        THEN IF ny < 0 THEN [x |-> 0, y |-> height - 1]
             ELSE IF ny > height - 1 THEN [x |-> 0, y |-> 0]
             ELSE [x |-> 0, y |-> ny]
        ELSE IF ny < 0 THEN [x |-> nx, y |-> height - 1]
        ELSE IF ny > height - 1 THEN [x |-> nx, y |-> 0]
        ELSE [x |-> nx, y |-> ny]

\* neighbour_pos with the two left-hand corner cases exchanged
neighbour_pos_corners_swapped(cell_pos, x_off, y_off) ==
    LET nx == cell_pos.x + x_off
        ny == cell_pos.y + y_off
    IN  IF nx < 0
        THEN IF ny < 0 THEN [x |-> width - 1, y |-> 0]
             ELSE IF ny > height - 1 THEN [x |-> width - 1, y |-> height - 1]
             ELSE [x |-> width - 1, y |-> ny]
        ELSE IF nx > width - 1
        THEN IF ny < 0 THEN [x |-> 0, y |-> height - 1]
             ELSE IF ny > height - 1 THEN [x |-> 0, y |-> 0]
             ELSE [x |-> 0, y |-> ny]
        ELSE IF ny < 0 THEN [x |-> nx, y |-> height - 1]
        ELSE IF ny > height - 1 THEN [x |-> nx, y |-> 0]
        ELSE [x |-> nx, y |-> ny]

neighbour_pos(cell_pos, x_off, y_off) ==
    LET nx == cell_pos.x + x_off
        ny == cell_pos.y + y_off
    IN  IF nx < 0
        THEN IF ny < 0 THEN [x |-> width - 1, y |-> height - 1]
             ELSE IF ny > height - 1 THEN [x |-> width - 1, y |-> 0]
             ELSE [x |-> width - 1, y |-> ny]
        ELSE IF nx > width - 1
        THEN IF ny < 0 THEN [x |-> 0, y |-> height - 1]
             ELSE IF ny > height - 1 THEN [x |-> 0, y |-> 0]
             ELSE [x |-> 0, y |-> ny]
        ELSE IF ny < 0 THEN [x |-> nx, y |-> height - 1]
        ELSE IF ny > height - 1 THEN [x |-> nx, y |-> 0]
        ELSE [x |-> nx, y |-> ny]

neighbour_index(cell_idx, off) ==
    coords_to_index(neighbour_pos(index_to_coords(cell_idx), off[1], off[2]))

num_neighbour_alive(cs, cell_idx) ==
    Cardinality({off \in Offsets : cs[neighbour_index(cell_idx, off)]})

\* rule_alive without the test that a cell born on 3 neighbours is dead and
\* a cell kept on 2 neighbours is alive
rule_alive_any_cell(cs, cell_idx) ==
    LET n == num_neighbour_alive(cs, cell_idx)
    IN  n = 2 \/ n = 3

rule_alive(cs, cell_idx) ==
    LET n == num_neighbour_alive(cs, cell_idx)
    IN  (cs[cell_idx] /\ (n = 2 \/ n = 3)) \/ (~cs[cell_idx] /\ n = 3)

\* cell_next_state comparing the draw with < instead of <=
cell_next_state_strict(cs, cell_idx, probability) ==
    IF rule_alive(cs, cell_idx)
    THEN IF probability < alive_probability THEN TRUE ELSE FALSE
    ELSE IF probability < dead_probability THEN FALSE ELSE TRUE

cell_next_state(cs, cell_idx, probability) ==
    IF rule_alive(cs, cell_idx)
    THEN IF probability <= alive_probability THEN TRUE ELSE FALSE
    ELSE IF probability <= dead_probability THEN FALSE ELSE TRUE

----------------------------------------------------------------------------
(* Construction *)

new(w, h, mi, ml, dp, ap) ==
    /\ width = w
    /\ height = h
    /\ initial_cells = VecOf(w * h, FALSE)
    /\ cells = VecOf(w * h, FALSE)
    /\ cells_probabilities = VecOf(w * h, 0)
    /\ iteration = 0
    /\ launch_count = 0
    /\ max_iterations = mi
    /\ max_launch_count = ml
    /\ dead_probability = dp
    /\ alive_probability = ap
    /\ op = "new"
    /\ calls = 0
    /\ entropy_reports = 0
    /\ sampled_dead = VecOf(w * h, FALSE)
    /\ launch_gain = VecOf(w * h, 0)
    /\ pc = "idle"
    /\ worker_draws = <<>>
    /\ collected = <<>>

\* Small grids, square and not; both probabilities equal
Init ==
    \E w \in 1..MaxCells : \E h \in 1..(MaxCells \div w) :
        \E mi \in 0..MaxIterations, ml \in 0..MaxLaunches,
           p \in Probabilities :
            new(w, h, mi, ml, p, p)

\* The same grids with max_launch_count = MaxLaunches
InitSeed ==
    \E w \in 1..MaxCells : \E h \in 1..(MaxCells \div w) :
        \E mi \in 0..MaxIterations, p \in Probabilities :
            new(w, h, mi, MaxLaunches, p, p)

\* The same grids under every pair of probabilities
InitRule ==
    \E w \in 1..MaxCells : \E h \in 1..(MaxCells \div w) :
        \E mi \in 0..MaxIterations, dp \in Probabilities, ap \in Probabilities :
            new(w, h, mi, MaxLaunches, dp, ap)

\* Grids of up to LifeCells cells, square and not, with
\* alive_probability = dead_probability = 1
InitLife ==
    \E w \in 1..LifeCells : \E h \in 1..(LifeCells \div w) :
        \E mi \in 0..MaxIterations :
            new(w, h, mi, MaxLaunches, One, One)

\* The BlockDim x BlockDim grid with both probabilities 1
InitBlock ==
    \E mi \in 0..MaxIterations, ml \in 0..MaxLaunches :
        new(BlockDim, BlockDim, mi, ml, One, One)

----------------------------------------------------------------------------
(* State seeding and reset *)

mark_alive(cs, cells_coords) ==
    [idx \in DOMAIN cs |->
        cs[idx] \/ \E pos \in cells_coords : coords_to_index(pos) = idx]

\* set_state allocating width * width cells
set_state_square(cells_coords) ==
    /\ cells' = mark_alive(VecOf(width * width, FALSE), cells_coords)
    /\ op' = "set_state"
    /\ UNCHANGED <<config, initial_cells, cells_probabilities, iteration,
                   launch_count, calls, entropy_reports, sampled_dead,
                   launch_gain, map_vars>>

\* set_state marking the coordinates on the cells already there
set_state_kept(cells_coords) ==
    /\ cells' = mark_alive(cells, cells_coords)
    /\ op' = "set_state"
    /\ UNCHANGED <<config, initial_cells, cells_probabilities, iteration,
                   launch_count, calls, entropy_reports, sampled_dead,
                   launch_gain, map_vars>>

set_state(cells_coords) ==
    /\ cells' = mark_alive(VecOf(width * height, FALSE), cells_coords)
    /\ op' = "set_state"
    /\ UNCHANGED <<config, initial_cells, cells_probabilities, iteration,
                   launch_count, calls, entropy_reports, sampled_dead,
                   launch_gain, map_vars>>

set_initial_state(cells_coords) ==
    /\ cells' = mark_alive(cells, cells_coords)
    /\ initial_cells' = cells'
    /\ op' = "set_initial_state"
    /\ UNCHANGED <<config, cells_probabilities, iteration, launch_count,
                   calls, entropy_reports, sampled_dead,
                   launch_gain, map_vars>>

\* reset_cells that leaves the cells as they are
reset_cells_kept(cs, init) == cs

\* reset_cells that clears the cells instead of copying initial_cells
reset_cells_cleared(cs, init) == [i \in DOMAIN cs |-> FALSE]

reset_cells(cs, init) ==
    [i \in DOMAIN cs |-> IF i \in DOMAIN init THEN init[i] ELSE cs[i]]

reset_state ==
    /\ cells' = reset_cells(cells, initial_cells)
    /\ iteration' = 0
    /\ op' = "reset_state"
    /\ UNCHANGED <<config, initial_cells, cells_probabilities, launch_count,
                   calls, entropy_reports, sampled_dead,
                   launch_gain, map_vars>>

----------------------------------------------------------------------------
(* The step *)

\* The outcomes of the parallel map of cell_next_state over 0..n-1: every
\* worker makes its own draw, so entry idx is cell_next_state(idx) under any
\* draw, independently of the other entries.
RECURSIVE next_states_upto(_, _)
next_states_upto(cs, n) ==
    IF n = 0 THEN {<<>>}
    ELSE LET last == {cell_next_state(cs, n - 1, probability) :
                          probability \in Draws}
         IN  {[idx \in 0..(n - 1) |-> IF idx = n - 1 THEN b ELSE ns[idx]] :
                  ns \in next_states_upto(cs, n - 1), b \in last}

next_states_of(cs) == next_states_upto(cs, VecLen(cs))

\* set_probability without the is_alive test
set_probability_always(probs, cs, idx) ==
    [probs EXCEPT ![idx] = probs[idx] + 1]

set_probability(probs, cs, idx) ==
    IF cs[idx] THEN [probs EXCEPT ![idx] = probs[idx] + 1] ELSE probs

RECURSIVE set_probabilities(_, _, _)
set_probabilities(probs, cs, n) ==
    IF n = 0 THEN probs
    ELSE set_probability(set_probabilities(probs, cs, n - 1), cs, n - 1)

calculate_entropy == entropy_reports' = entropy_reports + 1

\* is_sampling_step one iteration earlier
is_sampling_step_early == iteration + 1 = max_iterations

\* is_sampling_step with >= instead of ==
is_sampling_step_late == iteration >= max_iterations

is_sampling_step == iteration = max_iterations

\* is_launch_boundary one iteration later
is_launch_boundary_late == iteration = max_iterations + 2

is_launch_boundary == iteration = max_iterations + 1

\* What update() does with the collected next states: it installs them,
\* samples, and moves the iteration and launch counters
install(next_states) ==
        LET installed == [idx \in 0..(VecLen(cells) - 1) |-> next_states[idx]]
        IN  /\ IF is_sampling_step
               THEN /\ cells_probabilities' =
                          set_probabilities(cells_probabilities, installed,
                                            VecLen(installed))
                    /\ sampled_dead' =
                          [idx \in DOMAIN sampled_dead |->
                              sampled_dead[idx] \/ ~installed[idx]]
                    /\ IF max_launch_count = launch_count
                       THEN calculate_entropy
                       ELSE UNCHANGED entropy_reports
               ELSE UNCHANGED <<cells_probabilities, sampled_dead,
                                entropy_reports>>
            /\ IF is_launch_boundary
               THEN /\ cells' = reset_cells(installed, initial_cells)
                    /\ iteration' = 0
                    /\ launch_count' = launch_count + 1
               ELSE /\ cells' = installed
                    /\ iteration' = iteration + 1
                    /\ UNCHANGED launch_count
            /\ launch_gain' =
                  IF is_launch_boundary
                  THEN [idx \in DOMAIN launch_gain |-> 0]
                  ELSE [idx \in DOMAIN launch_gain |->
                           launch_gain[idx] + cells_probabilities'[idx]
                                            - cells_probabilities[idx]]
            /\ op' = "update"
            /\ calls' = calls + 1
            /\ UNCHANGED <<config, initial_cells>>

update ==
    /\ \E next_states \in next_states_of(cells) : install(next_states)
    /\ UNCHANGED map_vars

\* update() one worker at a time.  update_begin starts the parallel map and
\* fixes the draw every worker will make; worker(idx) is the closure of the
\* map run for one index, in any order; update_end runs once every worker
\* is done and is the rest of update().

\* a worker that sees the next states collected so far in place of the cells
worker_view_in_place(cs, done) ==
    [idx \in DOMAIN cs |-> IF idx \in DOMAIN done THEN done[idx] ELSE cs[idx]]

\* The cells a worker reads: the closure borrows self, whose cells nothing
\* writes before the map is collected
worker_view(cs, done) == cs

update_begin ==
    /\ pc = "idle"
    /\ pc' = "map"
    /\ worker_draws' \in [DOMAIN cells -> Draws]
    /\ collected' = <<>>
    /\ UNCHANGED <<config, initial_cells, cells, cells_probabilities,
                   iteration, launch_count, op, calls, entropy_reports,
                   sampled_dead, launch_gain>>

worker(idx) ==
    /\ pc = "map"
    /\ idx \notin DOMAIN collected
    /\ collected' =
          collected @@
          (idx :> cell_next_state(worker_view(cells, collected), idx,
                                  worker_draws[idx]))
    /\ UNCHANGED <<config, initial_cells, cells, cells_probabilities,
                   iteration, launch_count, op, calls, entropy_reports,
                   sampled_dead, launch_gain, pc, worker_draws>>

update_end ==
    /\ pc = "map"
    /\ DOMAIN collected = DOMAIN cells
    /\ install(collected)
    /\ pc' = "idle"
    /\ worker_draws' = <<>>
    /\ collected' = <<>>

----------------------------------------------------------------------------
(* The grid driven through its public methods in any order *)

SetState == \E cells_coords \in SUBSET Points : set_state(cells_coords)
SetInitialState ==
    \E cells_coords \in SUBSET Points : set_initial_state(cells_coords)
ResetState == reset_state
Update == calls < MaxCalls /\ update

Next == SetState \/ SetInitialState \/ ResetState \/ Update

Spec == Init /\ [][Next]_vars

\* The same calls on the grids of InitSeed
SpecSeed == InitSeed /\ [][Next]_vars

----------------------------------------------------------------------------
(* The driver's run: the grid is seeded once, right after construction,   *)
(* and from then on only update() is called.                              *)

DriverSetState == op = "new" /\ SetState
DriverSetInitialState == op = "new" /\ SetInitialState
DriverUpdate == calls < RunCalls /\ update

NextRun == DriverSetState \/ DriverSetInitialState \/ DriverUpdate

SpecRun == Init /\ [][NextRun]_vars

\* The first launch of the run, seeded with any pattern
FirstLaunchUpdate == launch_count = 0 /\ update

NextFirstLaunch ==
    DriverSetState \/ DriverSetInitialState \/ FirstLaunchUpdate

SpecRule == InitRule /\ [][NextFirstLaunch]_vars

SpecLife == InitLife /\ [][NextFirstLaunch]_vars

\* The same run seeded with a 2x2 block of alive cells
Block(bx, by) ==
    {[x |-> (bx + dx) % width, y |-> (by + dy) % height] :
        dx \in {0, 1}, dy \in {0, 1}}
Blocks == {Block(bx, by) : bx \in 0..(width - 1), by \in 0..(height - 1)}

BlockSetState == op = "new" /\ \E b \in Blocks : set_state(b)
BlockSetInitialState == op = "new" /\ \E b \in Blocks : set_initial_state(b)

NextBlock == BlockSetState \/ BlockSetInitialState \/ DriverUpdate

SpecBlock == InitBlock /\ [][NextBlock]_vars

----------------------------------------------------------------------------
(* The grid seeded once and then driven through update() and              *)
(* reset_state() in any order                                             *)

NextReset ==
    DriverSetState \/ DriverSetInitialState \/ ResetState \/ Update

SpecReset == Init /\ [][NextReset]_vars

----------------------------------------------------------------------------
(* The driver's run with every update() split into its workers *)

MapSetState == pc = "idle" /\ DriverSetState
MapSetInitialState == pc = "idle" /\ DriverSetInitialState
UpdateBegin == calls < MaxCalls /\ update_begin
Worker == \E idx \in DOMAIN cells : worker(idx)
UpdateEnd == update_end

NextMap ==
    MapSetState \/ MapSetInitialState \/ UpdateBegin \/ Worker \/ UpdateEnd

SpecMap == Init /\ [][NextMap]_vars

----------------------------------------------------------------------------
(* Reference definitions used by the properties *)

\* The next states of cs under one draw per cell
NextUnderDraws(cs, draws) ==
    [idx \in DOMAIN cs |-> cell_next_state(cs, idx, draws[idx])]

\* The cells that a list of coordinates names, as a grid of width x height
Pattern(cells_coords) ==
    [idx \in 0..(width * height - 1) |->
        \E pos \in cells_coords : pos.y * width + pos.x = idx]

\* Alive cells among the 8 Moore neighbours of the cell stored at idx, on the
\* torus: each axis wrapped on its own
TorusCount(cs, idx) ==
    LET cx == idx % width
        cy == idx \div width
    IN  Cardinality({off \in Offsets :
            cs[((cy + off[2]) % height) * width + ((cx + off[1]) % width)]})

\* The standard Game-of-Life next generation on the torus
LifeNext(cs) ==
    [idx \in DOMAIN cs |->
        IF cs[idx] THEN TorusCount(cs, idx) \in {2, 3}
        ELSE TorusCount(cs, idx) = 3]

\* The n-th Game-of-Life generation after cs
RECURSIVE LifeAfter(_, _)
LifeAfter(cs, n) == IF n = 0 THEN cs ELSE LifeNext(LifeAfter(cs, n - 1))

IsBlockPattern(cs) == \E b \in Blocks : cs = Pattern(b)

AllDead(cs) == \A idx \in DOMAIN cs : ~cs[idx]

----------------------------------------------------------------------------
(* Properties *)

\* C1: with alive_probability = dead_probability = 1 on a square grid, an
\* update() made while iteration <= max_iterations installs the standard
\* Game-of-Life next generation of the torus, whatever the draws.
C1_UpdateIsLifeRule ==
    [][(/\ op' = "update"
        /\ alive_probability = One /\ dead_probability = One
        /\ width = height
        /\ iteration <= max_iterations)
       => cells' = LifeNext(cells)]_vars

\* C1 witness: a 3x3 grid seeded with the single corner cell (0,0) is all
\* dead after its first update().
C1_Witness ==
    /\ op = "update" /\ calls = 1 /\ iteration = 1
    /\ width = 3 /\ height = 3
    /\ alive_probability = One /\ dead_probability = One
    /\ initial_cells = Pattern({[x |-> 0, y |-> 0]})
    /\ AllDead(cells)

\* C2: for every width and height, the alive-neighbour count cell_next_state
\* uses for the cell stored at index y*width + x is the number of alive
\* cells among the 8 toroidal neighbours of (x, y).
C2_NeighbourCountIsToroidal ==
    \A idx \in DOMAIN cells :
        num_neighbour_alive(cells, idx) = TorusCount(cells, idx)

\* C3: for every draw r and every pair of probabilities, a cell whose
\* deterministic rule outcome is alive is alive next iff
\* r <= alive_probability, and a cell whose rule outcome is dead is dead next
\* iff r <= dead_probability.
C3_ProbabilisticOverride ==
    \A idx \in DOMAIN cells : \A r \in Draws :
        LET n == num_neighbour_alive(cells, idx)
            rule_outcome == IF cells[idx] THEN n \in {2, 3} ELSE n = 3
            next == cell_next_state(cells, idx, r)
        IN  /\ rule_outcome => (next <=> r <= alive_probability)
            /\ ~rule_outcome => (~next <=> r <= dead_probability)

\* C3 witness: after an update() under probabilities strictly between 0 and
\* 1, a grid holding a cell of each rule outcome.
C3_Witness ==
    /\ op = "update"
    /\ alive_probability \in 1..(Scale - 1)
    /\ dead_probability \in 1..(Scale - 1)
    /\ \E i \in DOMAIN cells : rule_alive(cells, i)
    /\ \E j \in DOMAIN cells : ~rule_alive(cells, j)

\* C4 as claimed: under probabilities 1 every update() of a grid holding a
\* 2x2 block leaves cells unchanged, so a block seeded by either seeding call
\* is there after any number of update() calls.
C4_BlockIsFixedPoint ==
    [][(op' = "update" /\ IsBlockPattern(cells)) => cells' = cells]_vars

\* C4 as amended: an update() of a grid holding a 2x2 block leaves cells
\* unchanged when it is made with iteration <= max_iterations, or when
\* initial_cells holds the same block (seeding through set_initial_state);
\* the launch-boundary update() puts initial_cells into cells.
C4_BlockIsFixedPointWithinLaunch ==
    [][(/\ op' = "update"
        /\ IsBlockPattern(cells)
        /\ (iteration <= max_iterations \/ initial_cells = cells))
       => cells' = cells]_vars

\* C4 witness: a block seeded through set_initial_state, still there after
\* a launch boundary.
C4_Witness ==
    /\ op = "update" /\ launch_count >= 1
    /\ calls > max_iterations + 1
    /\ IsBlockPattern(cells) /\ cells = initial_cells

\* C5: cells, initial_cells and cells_probabilities have length width*height
\* in every state reachable through the four methods.
C5_LengthsAreWidthTimesHeight ==
    /\ VecLen(cells) = width * height
    /\ VecLen(initial_cells) = width * height
    /\ VecLen(cells_probabilities) = width * height
    /\ DOMAIN cells = 0..(width * height - 1)
    /\ DOMAIN initial_cells = DOMAIN cells
    /\ DOMAIN cells_probabilities = DOMAIN cells

\* C5 witness: a non-square grid after seeding, updates and a launch
\* boundary.
C5_Witness ==
    /\ op = "update" /\ width # height /\ launch_count >= 1
    /\ \E idx \in DOMAIN initial_cells : initial_cells[idx]

\* C6: reset_state() makes cells equal to initial_cells and iteration 0, and
\* leaves launch_count, cells_probabilities and initial_cells unchanged.
C6_ResetStateFrame ==
    [][op' = "reset_state"
       => /\ cells' = initial_cells
          /\ iteration' = 0
          /\ launch_count' = launch_count
          /\ cells_probabilities' = cells_probabilities
          /\ initial_cells' = initial_cells]_vars

\* C6 witness: reset_state() after updates that completed a launch and
\* counted an alive cell, on a grid whose initial pattern has an alive cell.
C6_Witness ==
    /\ op = "reset_state" /\ calls > 0 /\ launch_count > 0
    /\ iteration = 0 /\ cells = initial_cells
    /\ \E idx \in DOMAIN cells : initial_cells[idx]
    /\ \E idx \in DOMAIN cells : cells_probabilities[idx] > 0

\* C7: after exactly max_launch_count * (max_iterations + 2) update() calls
\* on a seeded fresh grid every counter is <= max_launch_count, and a counter
\* equal to max_launch_count belongs to a cell that was alive in the snapshot
\* installed by every sampling step.
C7_CountersAfterAllLaunches ==
    calls = max_launch_count * (max_iterations + 2)
    => \A idx \in DOMAIN cells_probabilities :
          /\ cells_probabilities[idx] <= max_launch_count
          /\ cells_probabilities[idx] = max_launch_count
                => ~sampled_dead[idx]

\* C7 witness: the end of a run of at least one launch, with one cell alive
\* at every sampling step and another cell dead at one of them.
C7_Witness ==
    /\ max_launch_count >= 1
    /\ op = "update" /\ calls = max_launch_count * (max_iterations + 2)
    /\ \E idx \in DOMAIN cells_probabilities :
          cells_probabilities[idx] = max_launch_count
    /\ \E idx \in DOMAIN cells_probabilities :
          cells_probabilities[idx] < max_launch_count /\ sampled_dead[idx]

\* C8 as claimed: in every state of an update-only run every counter is
\* <= launch_count.
C8_CountersAtMostLaunchCount ==
    \A idx \in DOMAIN cells_probabilities :
        cells_probabilities[idx] <= launch_count

\* C8 as amended: every counter is <= launch_count, except between a
\* sampling step and the launch-boundary step after it (iteration =
\* max_iterations + 1), where it is <= launch_count + 1.
C8_CountersAtMostLaunchesSampled ==
    \A idx \in DOMAIN cells_probabilities :
        cells_probabilities[idx] <=
            IF iteration = max_iterations + 1
            THEN launch_count + 1 ELSE launch_count

\* C8 witness: right after the sampling step of the second launch, a counter
\* that is one above launch_count.
C8_Witness ==
    /\ op = "update" /\ iteration = max_iterations + 1 /\ launch_count = 1
    /\ \E idx \in DOMAIN cells_probabilities :
          cells_probabilities[idx] = launch_count + 1

\* C9: when the driver stops, right after the update() that made
\* launch_count equal to max_launch_count >= 1, the entropy has been
\* computed exactly once.
C9_EntropyOnceWhenDriverStops ==
    (/\ max_launch_count >= 1
     /\ op = "update" /\ iteration = 0
     /\ launch_count = max_launch_count)
    => entropy_reports = 1

\* C10: set_initial_state(coords) leaves cells and initial_cells with exactly
\* the cells named in coords alive.
C10_SetInitialStateSetsPattern ==
    [][\A cells_coords \in SUBSET Points :
          set_initial_state(cells_coords)
          => /\ cells' = Pattern(cells_coords)
             /\ initial_cells' = Pattern(cells_coords)]_vars

\* C11: on a square grid coords_to_index and index_to_coords are inverses of
\* each other: every in-range (x, y) comes back from its index, and every
\* index in 0..n*n-1 comes back from its coordinates.
C11_SquareMappingsAreInverse ==
    width = height
    => /\ \A pos \in Points : index_to_coords(coords_to_index(pos)) = pos
       /\ \A index \in 0..(width * height - 1) :
              /\ index_to_coords(index) \in Points
              /\ coords_to_index(index_to_coords(index)) = index

\* C11 witness: a 3x3 grid with an alive cell off the diagonal, after an
\* update() has mapped every index to its coordinates.
C11_Witness ==
    /\ op = "update" /\ width = 3 /\ height = 3
    /\ \E pos \in Points :
          pos.x # pos.y /\ initial_cells[coords_to_index(pos)]

\* C12: in every state reached through update() and reset_state(),
\* 0 <= iteration <= max_iterations + 1, and a call changes iteration only
\* by adding 1 to it or by setting it to 0.
C12_IterationInRange ==
    [][/\ iteration \in 0..(max_iterations + 1)
       /\ iteration' \in 0..(max_iterations + 1)
       /\ \/ iteration' = iteration
          \/ iteration' = iteration + 1
          \/ iteration' = 0]_vars

\* C12 witness: iteration back at 0 right after the launch-boundary
\* update(), having been max_iterations + 1 before it.
C12_Witness ==
    /\ op = "update" /\ launch_count = 1
    /\ calls = max_iterations + 2
    /\ iteration = 0

\* C13: set_state(coords) leaves cells with exactly the cells named in coords
\* alive, whatever cells held before, and leaves initial_cells,
\* cells_probabilities, iteration and launch_count unchanged.
C13_SetStateSetsPattern ==
    [][op' = "set_state"
       => /\ \A cells_coords \in SUBSET Points :
                set_state(cells_coords) => cells' = Pattern(cells_coords)
          /\ initial_cells' = initial_cells
          /\ cells_probabilities' = cells_probabilities
          /\ iteration' = iteration
          /\ launch_count' = launch_count]_vars

\* C13 witness: set_state() called after the sampling step of a launch on a
\* grid with a counted cell and an alive initial cell, leaving a cell dead
\* that initial_cells has alive.
C13_Witness ==
    /\ op = "set_state" /\ iteration = max_iterations + 1
    /\ \E idx \in DOMAIN cells_probabilities : cells_probabilities[idx] > 0
    /\ \E idx \in DOMAIN cells : initial_cells[idx] /\ ~cells[idx]

\* C14: while the workers of an update() run, in any order, cells stays
\* the snapshot the update() started from; the snapshot installed when they
\* are all done is the next state of that snapshot under the workers' draws,
\* cell by cell, so it is the same for every order, and it is what the
\* sampling step counts.
C14_WorkersReadPreStepSnapshot ==
    [][/\ (pc = "map" /\ pc' = "map") => cells' = cells
       /\ (pc = "map" /\ pc' = "idle")
            => LET next == NextUnderDraws(cells, worker_draws)
               IN  /\ cells' = IF iteration = max_iterations + 1
                                THEN initial_cells ELSE next
                   /\ \A idx \in DOMAIN cells :
                         cells_probabilities'[idx] =
                            cells_probabilities[idx] +
                            (IF iteration = max_iterations /\ next[idx]
                             THEN 1 ELSE 0)]_vars

\* C14 witness: in an update() of the 2x1 grid holding cell 0 alive and cell
\* 1 dead, the worker of cell 1 has run first and made its cell alive, and
\* the worker of cell 0, whose rule outcome depends on cell 1, has yet to run.
C14_Witness ==
    /\ pc = "map" /\ width = 2 /\ height = 1
    /\ cells[0] /\ ~cells[1]
    /\ DOMAIN collected = {1} /\ collected[1]
    /\ rule_alive(cells, 0)
    /\ ~rule_alive([cells EXCEPT ![1] = TRUE], 0)

\* C15: an update() made with iteration = max_iterations + 1 ends with cells
\* equal to initial_cells whatever the draws, iteration 0 and launch_count
\* one higher, and leaves cells_probabilities and initial_cells unchanged;
\* an update() made with any other iteration leaves launch_count unchanged.
C15_LaunchBoundaryStep ==
    [][op' = "update"
       => IF iteration = max_iterations + 1
          THEN /\ cells' = initial_cells
               /\ iteration' = 0
               /\ launch_count' = launch_count + 1
               /\ cells_probabilities' = cells_probabilities
               /\ initial_cells' = initial_cells
          ELSE launch_count' = launch_count]_vars

\* C15 witness: right after a launch-boundary update() on a grid with an
\* alive initial cell, a dead initial cell whose counter is not 0, and
\* probabilities under which the draws decide the next states.
C15_Witness ==
    /\ op = "update" /\ iteration = 0 /\ launch_count >= 1
    /\ cells = initial_cells
    /\ alive_probability \in 1..(Scale - 1)
    /\ \E idx \in DOMAIN cells : initial_cells[idx]
    /\ \E idx \in DOMAIN cells :
          ~initial_cells[idx] /\ cells_probabilities[idx] > 0

\* C16: in a run of update() calls on a fresh grid, after n calls
\* iteration = n mod (max_iterations + 2) and launch_count =
\* n div (max_iterations + 2); of the max_iterations + 2 calls of a launch
\* the one made after max_iterations calls, and only that one, samples: it
\* counts the alive cells of the snapshot it installs.
C16_IterationAndLaunchFromCalls ==
    [][/\ iteration = calls % (max_iterations + 2)
       /\ launch_count = calls \div (max_iterations + 2)
       /\ iteration' = calls' % (max_iterations + 2)
       /\ launch_count' = calls' \div (max_iterations + 2)
       /\ op' = "update"
            => IF calls % (max_iterations + 2) = max_iterations
               THEN \A idx \in DOMAIN cells :
                       /\ cells_probabilities'[idx] =
                             cells_probabilities[idx] +
                             (IF cells'[idx] THEN 1 ELSE 0)
                       /\ sampled_dead'[idx] =
                             (sampled_dead[idx] \/ ~cells'[idx])
               ELSE /\ cells_probabilities' = cells_probabilities
                    /\ sampled_dead' = sampled_dead]_vars

\* C16 witness: the end of the second launch of a run with
\* max_iterations = 1, six calls in, with a cell counted in both launches
\* and a cell seen dead by a sampling step.
C16_Witness ==
    /\ op = "update" /\ max_iterations = 1
    /\ calls = 2 * (max_iterations + 2)
    /\ iteration = 0 /\ launch_count = 2
    /\ \E idx \in DOMAIN cells : cells_probabilities[idx] = 2
    /\ \E idx \in DOMAIN cells : sampled_dead[idx]

\* C17 as claimed: in any sequence of update() and reset_state() calls a
\* counter never decreases, it grows by at most 1 between two consecutive
\* increments of launch_count, and it grows exactly in an update() that is a
\* sampling step and installs a snapshot with the cell alive.
C17_CountersGainAtMostOnePerLaunch ==
    [][\A idx \in DOMAIN cells_probabilities :
          /\ cells_probabilities'[idx] >= cells_probabilities[idx]
          /\ launch_gain'[idx] <= 1
          /\ cells_probabilities'[idx] > cells_probabilities[idx]
                <=> (op' = "update" /\ iteration = max_iterations
                                   /\ cells'[idx])]_vars

\* C17 as amended: a counter never decreases, it grows by at most 1 in one
\* call, and it grows exactly in an update() that is a sampling step and
\* installs a snapshot with the cell alive.  A launch has a sampling step
\* more for every reset_state() called after one, so the growth within a
\* launch is not bounded by 1.
C17_CountersGainAtMostOnePerSamplingStep ==
    [][\A idx \in DOMAIN cells_probabilities :
          /\ cells_probabilities'[idx] >= cells_probabilities[idx]
          /\ cells_probabilities'[idx] <= cells_probabilities[idx] + 1
          /\ cells_probabilities'[idx] > cells_probabilities[idx]
                <=> (op' = "update" /\ iteration = max_iterations
                                   /\ cells'[idx])]_vars

\* C17 witness: a counter that has grown by 2 within the first launch, the
\* launch having been sampled, rewound by reset_state() and sampled again.
C17_Witness ==
    /\ op = "update" /\ launch_count = 0
    /\ \E idx \in DOMAIN cells_probabilities :
          launch_gain[idx] = 2 /\ cells_probabilities[idx] = 2

\* C18: whenever an update() of an update-only run with
\* max_launch_count >= 1 calls calculate_entropy, every counter it reads is
\* in 0..max_launch_count, so that every frequency
\* cells_probabilities[i] / max_launch_count is in [0, 1].
C18_CountsAtMostMaxLaunchCountAtEntropy ==
    [][(entropy_reports' = entropy_reports + 1 /\ max_launch_count >= 1)
       => \A idx \in DOMAIN cells_probabilities :
             cells_probabilities'[idx] \in 0..max_launch_count]_vars

\* C19 as claimed, for a launch that starts from initial_cells on a square
\* grid under probabilities 1: the snapshot whose alive cells an update()
\* counts is generation max_iterations of the launch's starting state, and
\* the launch-boundary update() resets the cells after that.
C19_SampledAfterMaxIterationsSteps ==
    [][(/\ op' = "update"
        /\ width = height
        /\ ~AllDead(initial_cells))
       => /\ cells_probabilities' # cells_probabilities
               => \A idx \in DOMAIN cells :
                     cells_probabilities'[idx] =
                        cells_probabilities[idx] +
                        (IF LifeAfter(initial_cells, max_iterations)[idx]
                         THEN 1 ELSE 0)
          /\ iteration = max_iterations + 1 => cells' = initial_cells]_vars

\* C19 as amended: the snapshot counted is generation max_iterations + 1 of
\* the launch's starting state, the one installed by the update() made with
\* iteration = max_iterations; no other update() counts, and the
\* launch-boundary update() after it resets the cells.
C19_SampledAfterMaxIterationsPlusOneSteps ==
    [][(/\ op' = "update"
        /\ width = height
        /\ ~AllDead(initial_cells))
       => /\ IF iteration = max_iterations
             THEN \A idx \in DOMAIN cells :
                     cells_probabilities'[idx] =
                        cells_probabilities[idx] +
                        (IF LifeAfter(initial_cells, max_iterations + 1)[idx]
                         THEN 1 ELSE 0)
             ELSE cells_probabilities' = cells_probabilities
          /\ iteration = max_iterations + 1 => cells' = initial_cells]_vars

\* C19 witness: right after the sampling step of a launch started from an
\* initial pattern whose generations max_iterations and max_iterations + 1
\* differ, with the cells of the latter counted.
C19_Witness ==
    /\ op = "update" /\ width = height
    /\ iteration = max_iterations + 1
    /\ ~AllDead(initial_cells)
    /\ LifeAfter(initial_cells, max_iterations)
          # LifeAfter(initial_cells, max_iterations + 1)
    /\ \E idx \in DOMAIN cells : cells_probabilities[idx] = 1
    /\ \A idx \in DOMAIN cells :
          cells_probabilities[idx] =
             IF LifeAfter(initial_cells, max_iterations + 1)[idx]
             THEN 1 ELSE 0

\* C20: on every grid, square or not, every neighbour index that
\* cell_next_state computes for a cell index of the grid is an index of
\* cells: the wrapped x is below width and the wrapped y below height, also
\* where index_to_coords returned an x >= width.
C20_NeighbourIndexInRange ==
    \A cell_idx \in 0..(VecLen(cells) - 1) : \A off \in Offsets :
        LET pos == neighbour_pos(index_to_coords(cell_idx), off[1], off[2])
        IN  /\ pos.x \in 0..(width - 1)
            /\ pos.y \in 0..(height - 1)
            /\ neighbour_index(cell_idx, off) \in 0..(width * height - 1)
            /\ neighbour_index(cell_idx, off) \in DOMAIN cells

\* C20 witness: an update() has run on a non-square grid with an alive cell
\* and a cell index whose index_to_coords has x >= width.
C20_Witness ==
    /\ op = "update" /\ width # height
    /\ \E cell_idx \in DOMAIN cells : index_to_coords(cell_idx).x >= width
    /\ \E idx \in DOMAIN cells : cells[idx]

====
